---- MODULE Spec2Model ----
(***************************************************************************)
(* A model of fccid_downloader.py: the link extractor                      *)
(* (find_exhibit_links), the resolver (get_pdf_download_url), the filename *)
(* choice of download_exhibit and the run driven by download_all_exhibits  *)
(* and main.                                                               *)
(*                                                                         *)
(* Text is modelled as a sequence of tokens.  A token stands for a run of  *)
(* characters that the code never splits: ".pdf" is the four characters of *)
(* the suffix, "/" one slash, "a" an ordinary character, and so on.  Case  *)
(* matters (".PDF" is not ".pdf") and lower() maps one onto the other.     *)
(* A parsed document is the tree the HTML parser hands to the code; the    *)
(* text of a cell or an anchor is what get_text(strip=True) returns.       *)
(***************************************************************************)
EXTENDS Integers, Sequences, FiniteSets, TLC

VARIABLES
    pc,                   \* where the run of main/download_all_exhibits is
    html_content,         \* what get_fcc_page returned (None before it ran)
    exhibit_links,        \* the descriptors returned by find_exhibit_links
    idx,                  \* number of descriptors already processed
    successful_downloads, \* the tally of download_all_exhibits
    dir_created,          \* os.makedirs(download_dir) has run
    files,                \* the files of the directory: filename -> [mtime]
    requests,             \* the GET requests issued, in order
    results,              \* what download_exhibit returned, per item
    exit_code,            \* the exit code of the process (-1 while running)
    input,                \* argument of the function under test
    output,               \* its return value
    phase                 \* "idle" | "ready" | "returned"

vars == <<pc, html_content, exhibit_links, idx, successful_downloads,
          dir_created, files, requests, results, exit_code,
          input, output, phase>>

runVars == <<pc, html_content, exhibit_links, idx, successful_downloads,
             dir_created, files, requests, results, exit_code>>

fnVars == <<input, output, phase>>

----------------------------------------------------------------------------
(* Bounds of the model *)

MaxHrefLen == 3       \* tokens in an anchor reference (filename checks)
MaxTextLen == 2       \* tokens in an anchor text (filename checks)
MaxNodes == 2         \* tables and loose anchors in a document
MaxRows == 2          \* data rows in a document, over all its tables
MaxAnchors == 2       \* anchors on an exhibit page
MaxButtons == 2       \* button/input elements on an exhibit page
MaxLinks == 3         \* rows of the main page in a run

----------------------------------------------------------------------------
(* Generic sequence helpers *)

\* the concatenation of the first n sequences of ss
RECURSIVE FlattenTo(_, _)
FlattenTo(ss, n) == IF n = 0 THEN <<>> ELSE FlattenTo(ss, n - 1) \o ss[n]

\* the concatenation of a sequence of sequences
Flatten(ss) == FlattenTo(ss, Len(ss))

SeqsUpTo(S, n) == UNION {[1..k -> S] : k \in 0..n}

\* the least element of a non-empty set of integers
Min(S) == CHOOSE x \in S : \A y \in S : x <= y

\* Python's Optional: None is <<>>, a value v is <<v>>
None == <<>>
Some(v) == <<v>>

----------------------------------------------------------------------------
(* Strings *)

\* str.lower(), token by token
LowerTok(t) ==
    CASE t = ".PDF" -> ".pdf"
      [] t = "PDF" -> "pdf"
      [] t = "Download" -> "download"
      [] t = "Submitted" -> "submitted"
      [] t = "SUBMIT" -> "submit"
      [] OTHER -> t

Lower(s) == [k \in DOMAIN s |-> LowerTok(s[k])]

\* s.endswith(suffix) for a suffix that is one token
EndsWith(s, suffix) == Len(s) > 0 /\ s[Len(s)] = suffix

\* `word in tok`: the substrings (among the words the code looks for) of a
\* token
TokContains(t, word) ==
    CASE word = "submit" -> t \in {"submit", "submitted"}
      [] word = "download" -> t \in {"download"}
      [] word = "pdf" -> t \in {"pdf", ".pdf"}
      [] word = ".pdf" -> t \in {".pdf"}
      [] OTHER -> t = word

\* `word in s`
Contains(s, word) == \E k \in DOMAIN s : TokContains(s[k], word)

\* the character class of re.sub(r'[<>:"/\\|?*]', '_', ...)
Forbidden == {"<", ">", ":", "\"", "/", "\\", "|", "?", "*"}

\* re.sub(r'[<>:"/\\|?*]', '_', s)
Sanitize(s) == [k \in DOMAIN s |-> IF s[k] \in Forbidden THEN "_" ELSE s[k]]

base_url == <<"https://fccid.io">>

\* a reference that carries its own scheme and host
IsAbsolute(href) == Len(href) > 0 /\ href[1] \in {"https://fccid.io", "https://other"}

\* urllib.parse.urljoin(base_url, href); base_url has an empty path
urljoin(base, href) ==
    IF href = <<>> THEN base
    ELSE IF IsAbsolute(href) THEN href
    ELSE IF href[1] = "/" THEN base \o href
    ELSE IF href[1] \in {"?", "#"} THEN base \o href
    ELSE base \o <<"/">> \o href

\* urlparse(href).path: the part after scheme and host, before the query
\* or fragment
UrlPath(href) ==
    LET rest == IF IsAbsolute(href) THEN Tail(href) ELSE href
        cut == {k \in DOMAIN rest : rest[k] \in {"?", "#"}}
    IN  IF cut = {} THEN rest ELSE SubSeq(rest, 1, Min(cut) - 1)

\* os.path.basename(p): what follows the last slash
Basename(p) ==
    LET sl == {k \in DOMAIN p : p[k] = "/"}
    IN  IF sl = {} THEN p
        ELSE SubSeq(p, (CHOOSE k \in sl : \A j \in sl : j <= k) + 1, Len(p))

----------------------------------------------------------------------------
(* The parsed document.                                                    *)
(*   anchor: [has_href, href, text]   an <a>; has_href is `href=True`      *)
(*   cell:   [text, anchors]          a <td>/<th> and the anchors in it    *)
(*   node:   [tag |-> "table", rows]  a <table>, rows are sequences of     *)
(*                                    cells, or                            *)
(*           [tag |-> "a", a]         an anchor outside every table        *)

Anchor(has_href, href, text) == [has_href |-> has_href, href |-> href, text |-> text]

Cell(text, anchors) == [text |-> text, anchors |-> anchors]

\* the tokens the pattern \d{4}-\d{2}-\d{2} matches
IsDateTok(t) == t \in {"2024-03-15", "2023-01-02", "2024-13-45"}

----------------------------------------------------------------------------
(* The markup of a page and its parse.  A page is a sequence of elements:  *)
(* <<"table", first row, row, ...>> names the rows of a table (<<"table">> *)
(* is a table without rows) and <<"a", anchor>> an anchor outside every    *)
(* table.  BeautifulSoup(html_content, 'html.parser') gives the tree.      *)

aReport == Anchor(TRUE, <<"/", "a", ".pdf">>, <<"Report">>)
aPhotos == Anchor(TRUE, <<"/", "b", ".PDF">>, <<"Photos">>)
aManual == Anchor(TRUE, <<"/", "doc", "/">>, <<"User", "/", "Manual">>)
aEmpty == Anchor(TRUE, <<>>, <<"Top">>)
aNamed == Anchor(FALSE, <<>>, <<"Anchor">>)

cDate == Cell(<<"2024-03-15", "to", "2023-01-02">>, <<>>)
cShortDate == Cell(<<"2024-3-5">>, <<>>)
cPending == Cell(<<"pending">>, <<>>)
cReport == Cell(<<"Report">>, <<aNamed, aReport>>)
cManual == Cell(<<"User", "/", "Manual", "2023-01-02">>, <<aManual>>)
cTopPhotos == Cell(<<"Top", "Photos">>, <<aEmpty, aPhotos>>)

\* <a href=...>...</a>
AnchorOf(markup) ==
    CASE markup = "report" -> aReport
      [] markup = "photos" -> aPhotos
      [] markup = "manual" -> aManual

\* <tr>...</tr>
RowOf(markup) ==
    CASE markup = "Exhibit|Submitted available" ->
           <<Cell(<<"Exhibit">>, <<>>), Cell(<<"Submitted", "available">>, <<>>)>>
      [] markup = "SUBMIT|Exhibit" ->
           <<Cell(<<"SUBMIT">>, <<>>), Cell(<<"Exhibit">>, <<>>)>>
      [] markup = "Exhibit(photos)|Type" ->
           <<Cell(<<"Exhibit">>, <<aPhotos>>), Cell(<<"Type">>, <<>>)>>
      [] markup = "Exhibit|Type|submitted" ->
           <<Cell(<<"Exhibit">>, <<>>), Cell(<<"Type">>, <<>>), Cell(<<"submitted">>, <<>>)>>
      [] markup = "report|date" -> <<cReport, cDate>>
      [] markup = "manual|pending" -> <<cManual, cPending>>
      [] markup = "report" -> <<cReport>>
      [] markup = "pending|date" -> <<cPending, cDate>>
      [] markup = "photos|date" -> <<cTopPhotos, cDate>>
      [] markup = "photos|short date" -> <<cTopPhotos, cShortDate>>
      [] markup = "photos|manual|date" -> <<cTopPhotos, cManual, cDate>>

Table(rows) == [tag |-> "table", rows |-> rows]

LooseAnchor(a) == [tag |-> "a", a |-> a]

ElementOf(markup) ==
    IF markup[1] = "a" THEN LooseAnchor(AnchorOf(markup[2]))
    ELSE Table([r \in 1..(Len(markup) - 1) |-> RowOf(markup[r + 1])])

\* BeautifulSoup(html_content, 'html.parser')
BeautifulSoup(html) == [k \in DOMAIN html |-> ElementOf(html[k])]

\* soup.find_all('table')
find_all_table(html) == SelectSeq(html, LAMBDA n : n.tag = "table")

\* the anchors of a row, in document order
RowAnchors(row) == Flatten([k \in DOMAIN row |-> row[k].anchors])

\* the anchors of a node, in document order
NodeAnchors(n) ==
    IF n.tag = "a" THEN <<n.a>>
    ELSE Flatten([r \in DOMAIN n.rows |-> RowAnchors(n.rows[r])])

\* soup.find_all('a', href=True)
find_all_a(html) ==
    SelectSeq(Flatten([k \in DOMAIN html |-> NodeAnchors(html[k])]),
              LAMBDA a : a.has_href)

\* cell.find('a', href=True): the first anchor of the cell that has the
\* attribute, or None
FindA(cell) ==
    LET ks == {k \in DOMAIN cell.anchors : cell.anchors[k].has_href}
    IN  IF ks = {} THEN None ELSE Some(cell.anchors[Min(ks)])

\* the truth value of `link and link['href']`
LinkUsable(link) == link # None /\ link[1].href # <<>>

\* lines 70-75: the first cell whose first anchor has a non-empty reference
ExhibitLink(cells) ==
    LET ks == {k \in DOMAIN cells : LinkUsable(FindA(cells[k]))}
    IN  IF ks = {} THEN None ELSE FindA(cells[Min(ks)])

\* re.search(r'(\d{4}-\d{2}-\d{2})', text): the first match or None
DateSearch(text) ==
    LET ds == {j \in DOMAIN text : IsDateTok(text[j])}
    IN  IF ds = {} THEN None ELSE Some(<<text[Min(ds)]>>)

\* lines 79-88: the date of a row
DateText(headers, cells) ==
    LET ks == {k \in DOMAIN headers :
                 Contains(headers[k], "submit") /\ k <= Len(cells)}
    IN  IF ks = {} THEN None
        ELSE LET date_text == cells[Min(ks)].text
                 date_match == DateSearch(date_text)
             IN  IF date_match # None THEN date_match ELSE Some(date_text)

\* lines 90-103: the descriptor of a row of the exhibits table
TableDescriptor(link, date_text) ==
    LET base == Basename(UrlPath(link.href))
    IN  [url |-> urljoin(base_url, link.href),
         filename |-> IF base = <<>> THEN Sanitize(link.text) ELSE base,
         text |-> link.text,
         date |-> date_text]

\* lines 65-103: the descriptors (none or one) a data row contributes
RowLinks(headers, cells) ==
    IF Len(cells) < 2 THEN <<>>
    ELSE LET exhibit_link == ExhibitLink(cells)
         IN  IF exhibit_link = None THEN <<>>
             ELSE <<TableDescriptor(exhibit_link[1], DateText(headers, cells))>>

\* line 60: the lower-cased texts of the cells of the first row
Headers(rows) == [k \in DOMAIN rows[1] |-> Lower(rows[1][k].text)]

\* line 63: any('submit' in header for header in headers)
IsExhibitsTable(headers) == \E k \in DOMAIN headers : Contains(headers[k], "submit")

\* lines 54-103: the descriptors one table contributes
TableLinks(table) ==
    IF table.rows = <<>> THEN <<>>
    ELSE LET headers == Headers(table.rows)
         IN  IF IsExhibitsTable(headers)
             THEN Flatten([r \in 1..(Len(table.rows) - 1) |->
                             RowLinks(headers, table.rows[r + 1])])
             ELSE <<>>

\* the scan stopped after the first table of the document
FirstTableScan(html) ==
    LET tables == find_all_table(html)
    IN  IF tables = <<>> THEN <<>> ELSE TableLinks(tables[1])

\* lines 52-103: the scan of all tables
TableScan(html) ==
    LET tables == find_all_table(html)
    IN  Flatten([t \in DOMAIN tables |-> TableLinks(tables[t])])

\* lines 110-116: the descriptor of an anchor in fallback mode
FallbackDescriptor(link) ==
    [url |-> urljoin(base_url, link.href),
     filename |-> Basename(UrlPath(link.href)),
     text |-> link.text,
     date |-> None]

\* the suffix test of line 109 without lower()
IsLowerCasePdfHref(href) == EndsWith(href, ".pdf")

\* line 109: href.lower().endswith('.pdf')
IsPdfHref(href) == EndsWith(Lower(href), ".pdf")

\* lines 107-116: the fallback scan of every anchor of the document
RECURSIVE FallbackScan(_)
FallbackScan(links) ==
    IF links = <<>> THEN <<>>
    ELSE (IF IsPdfHref(Head(links).href)
          THEN <<FallbackDescriptor(Head(links))>> ELSE <<>>)
         \o FallbackScan(Tail(links))

\* line 106: `if not exhibit_links`
UseFallback(links) == links = <<>>

\* find_exhibit_links(html_content)
find_exhibit_links(html_content_0) ==
    LET soup == BeautifulSoup(html_content_0)
        exhibit_links_0 == TableScan(soup)
    IN  IF UseFallback(exhibit_links_0)
        THEN FallbackScan(find_all_a(soup))
        ELSE exhibit_links_0

----------------------------------------------------------------------------
(* The pages find_exhibit_links is checked on *)

\* data rows: with and without a usable link, with one, two and three
\* cells, with and without a date in the submission column
SampleRows ==
    {"report|date", "manual|pending", "report", "pending|date", "photos|date",
     "photos|manual|date"}

\* first rows: the submission column second, first, absent and third
HeaderRows ==
    {"Exhibit|Submitted available", "SUBMIT|Exhibit", "Exhibit(photos)|Type",
     "Exhibit|Type|submitted"}

\* the elements with exactly c data rows
NodesWith(c) ==
    {<<"table", h>> \o rs : h \in HeaderRows, rs \in [1..c -> SampleRows]}
    \cup (IF c = 0
          THEN {<<"table">>} \cup {<<"a", a>> : a \in {"report", "photos", "manual"}}
          ELSE {})

\* NodesWith(c) for every c within the bound
NodeSets == [c \in 0..MaxRows |-> NodesWith(c)]

\* html is a page that starts with `prefix` and goes on with at most k
\* elements and at most `budget` data rows
RECURSIVE IsPageFrom(_, _, _, _)
IsPageFrom(html, prefix, k, budget) ==
    \/ html = prefix
    \/ /\ k > 0
       /\ \E c \in 0..budget : \E n \in NodeSets[c] :
            IsPageFrom(html, Append(prefix, n), k - 1, budget - c)

----------------------------------------------------------------------------
(* The run of main() is idle while a single function is checked *)

RunIdle ==
    /\ pc = "idle"
    /\ html_content = None
    /\ exhibit_links = <<>>
    /\ idx = 0
    /\ successful_downloads = 0
    /\ dir_created = FALSE
    /\ files = {}
    /\ requests = <<>>
    /\ results = <<>>
    /\ exit_code = -1

(* find_exhibit_links applied to a document *)

InitExtract ==
    /\ RunIdle
    /\ IsPageFrom(input, <<>>, MaxNodes, MaxRows)
    /\ output = <<>>
    /\ phase = "ready"

CallFindExhibitLinks ==
    /\ phase = "ready"
    /\ output' = find_exhibit_links(input)
    /\ phase' = "returned"
    /\ UNCHANGED <<input, runVars>>

NextExtract == CallFindExhibitLinks

SpecExtract == InitExtract /\ [][NextExtract]_vars

----------------------------------------------------------------------------
(* Properties of find_exhibit_links *)

\* the parse of the page find_exhibit_links was given
Soup == BeautifulSoup(input)

\* a text that contains the submission keyword in some letter case
HasSubmitWord(text) ==
    \E j \in DOMAIN text : text[j] \in {"submit", "submitted", "Submitted", "SUBMIT"}

\* the tables of the document whose first row has a submission cell
SubmissionTables(doc) ==
    LET ts == find_all_table(doc)
    IN  {t \in DOMAIN ts :
           /\ ts[t].rows # <<>>
           /\ \E k \in DOMAIN ts[t].rows[1] : HasSubmitWord(ts[t].rows[1][k].text)}

\* the rows of table t of the document
RowsOf(doc, t) == find_all_table(doc)[t].rows

\* anchor j of the cell is its first anchor with a reference, and the
\* reference is not empty
Leads(cell, j) ==
    /\ cell.anchors[j].has_href
    /\ cell.anchors[j].href # <<>>
    /\ \A i \in 1..(j - 1) : ~cell.anchors[i].has_href

\* cell k of the row is the first cell led by a non-empty reference
LeadCell(row, k) ==
    /\ \E j \in DOMAIN row[k].anchors : Leads(row[k], j)
    /\ \A i \in 1..(k - 1) : ~\E j \in DOMAIN row[i].anchors : Leads(row[i], j)

\* the anchor a row with a lead cell is listed under
RowLink(row) ==
    LET k == CHOOSE k \in DOMAIN row : LeadCell(row, k)
        j == CHOOSE j \in DOMAIN row[k].anchors : Leads(row[k], j)
    IN  row[k].anchors[j]

\* the data rows <<table, row>> that are listed: two cells or more, and a
\* lead cell
ListedRows(doc) ==
    {p \in UNION {{<<t, r>> : r \in 2..Len(RowsOf(doc, t))} : t \in SubmissionTables(doc)} :
       /\ Len(RowsOf(doc, p[1])[p[2]]) >= 2
       /\ \E k \in DOMAIN RowsOf(doc, p[1])[p[2]] : LeadCell(RowsOf(doc, p[1])[p[2]], k)}

\* the position of p among the pairs of S, in table order then row order
Rank(p, S) ==
    Cardinality({q \in S : q[1] < p[1] \/ (q[1] = p[1] /\ q[2] <= p[2])})

\* some anchor of the row has a non-empty reference
HasReference(row) ==
    \E k \in DOMAIN row : \E j \in DOMAIN row[k].anchors :
      row[k].anchors[j].has_href /\ row[k].anchors[j].href # <<>>

\* the data rows of the first submission table that have a reference
FirstTableRows(doc) ==
    LET t == Min(SubmissionTables(doc))
    IN  {<<t, r>> : r \in {r \in 2..Len(RowsOf(doc, t)) : HasReference(RowsOf(doc, t)[r])}}

PdfAnchors(doc) ==
    SelectSeq(find_all_a(doc),
              LAMBDA a : a.href # <<>> /\ a.href[Len(a.href)] \in {".pdf", ".PDF"})

\* C6: fallback mode is used exactly when the table scan lists no row; then
\* the result is the anchors of the document whose reference ends in .pdf
\* (any case), in document order, each with no date; otherwise the result
\* has one descriptor per listed row and none from the fallback.
C6_FallbackExactlyWhenEmpty ==
    phase = "returned" =>
        IF ListedRows(Soup) = {}
        THEN /\ Len(output) = Len(PdfAnchors(Soup))
             /\ \A k \in DOMAIN output :
                  /\ output[k].url = urljoin(base_url, PdfAnchors(Soup)[k].href)
                  /\ output[k].text = PdfAnchors(Soup)[k].text
                  /\ output[k].date = None
        ELSE /\ Len(output) = Cardinality(ListedRows(Soup))
             /\ \A k \in DOMAIN output :
                  \E p \in ListedRows(Soup) :
                    output[k].url =
                      urljoin(base_url, RowLink(RowsOf(Soup, p[1])[p[2]]).href)

\* a submission table lists nothing and the fallback returns two anchors,
\* one of them from inside the table
C6_Witness ==
    /\ phase = "returned"
    /\ SubmissionTables(Soup) # {}
    /\ ListedRows(Soup) = {}
    /\ Len(output) = 2
    /\ output[1].url # output[2].url

\* a string of the form YYYY-MM-DD
IsIsoDate(s) == Len(s) = 1 /\ IsDateTok(s[1])

\* C9: every descriptor's date is absent or of the form YYYY-MM-DD
C9_DateAbsentOrIso ==
    phase = "returned" =>
        \A k \in DOMAIN output :
            output[k].date = None \/ IsIsoDate(output[k].date[1])

----------------------------------------------------------------------------
(* The resolver: get_pdf_download_url.                                     *)
(*   page:   [anchors, buttons]   the parsed exhibit page                  *)
(*   button: [type_button, onclick]   a <button> or <input>; type_button   *)
(*           is `type="button"`, onclick is '' when the attribute is       *)
(*           missing                                                       *)

Button(type_button, onclick) == [type_button |-> type_button, onclick |-> onclick]

Page(anchors, buttons) == [anchors |-> anchors, buttons |-> buttons]

IsQuote(t) == t \in {"'", "\""}

\* the search with the pattern ["\']([^"\']*\.pdf)["\']: the quoted text has
\* to end in .pdf
OnclickSearchEnding(onclick) ==
    LET Q == {k \in DOMAIN onclick : IsQuote(onclick[k])}
        NextQ(i) == Min({q \in Q : q > i})
        M == {i \in Q :
                /\ \E q \in Q : q > i
                /\ NextQ(i) - 1 > i
                /\ onclick[NextQ(i) - 1] = ".pdf"}
    IN  IF M = {} THEN None
        ELSE Some(SubSeq(onclick, Min(M) + 1, NextQ(Min(M)) - 1))

\* re.search(r'["\']([^"\']*\.pdf[^"\']*)["\']', onclick): group 1 of the
\* leftmost match, or None.  A match starts at a quote, runs to the next
\* quote and has the literal .pdf in between.
OnclickSearch(onclick) ==
    LET Q == {k \in DOMAIN onclick : IsQuote(onclick[k])}
        NextQ(i) == Min({q \in Q : q > i})
        M == {i \in Q :
                /\ \E q \in Q : q > i
                /\ \E k \in (i + 1)..(NextQ(i) - 1) : onclick[k] = ".pdf"}
    IN  IF M = {} THEN None
        ELSE Some(SubSeq(onclick, Min(M) + 1, NextQ(Min(M)) - 1))

\* lines 136-138: the anchor is a candidate
IsDownloadAnchor(link) ==
    \/ EndsWith(Lower(link.href), ".pdf")
    \/ Contains(Lower(link.text), "download")
    \/ Contains(Lower(link.text), "pdf")

\* lines 131-140: the candidates taken from anchors
AnchorCandidates(page) ==
    LET links == SelectSeq(page.anchors, LAMBDA a : a.has_href /\ IsDownloadAnchor(a))
    IN  [k \in DOMAIN links |-> urljoin(base_url, links[k].href)]

\* lines 144-150: the candidates (none or one) a button contributes
ButtonLinks(button) ==
    IF Contains(Lower(button.onclick), "download") \/ Contains(Lower(button.onclick), ".pdf")
    THEN LET url_match == OnclickSearch(button.onclick)
         IN  IF url_match # None THEN <<urljoin(base_url, url_match[1])>> ELSE <<>>
    ELSE <<>>

\* lines 143-150: the candidates taken from buttons
ButtonCandidates(page) ==
    LET buttons == SelectSeq(page.buttons, LAMBDA b : b.type_button)
    IN  Flatten([k \in DOMAIN buttons |-> ButtonLinks(buttons[k])])

\* the candidates with the buttons' ahead of the anchors'
ButtonsFirst(page) == ButtonCandidates(page) \o AnchorCandidates(page)

\* lines 128-150: download_links when the loops are done
DownloadLinks(page) == AnchorCandidates(page) \o ButtonCandidates(page)

\* lines 153-157: the first link that ends in .pdf, or None
FirstPdfLink(download_links) ==
    LET E == {k \in DOMAIN download_links : EndsWith(Lower(download_links[k]), ".pdf")}
    IN  IF E = {} THEN None ELSE Some(download_links[Min(E)])

\* get_pdf_download_url(exhibit_url), given what the GET of the exhibit
\* page gave: None for a RequestException, else the parsed page
get_pdf_download_url(response) ==
    IF response = None THEN None
    ELSE FirstPdfLink(DownloadLinks(response[1]))

(* The exhibit pages the resolver is checked on *)

eDownload == Anchor(TRUE, <<"/", "files", "/", "x", ".pdf">>, <<"Download">>)
eViewer == Anchor(TRUE, <<"/", "view">>, <<"Download", "PDF">>)
eScan == Anchor(TRUE, <<"/", "y", ".PDF">>, <<"Scan">>)
eHome == Anchor(TRUE, <<"/">>, <<"Home">>)
eMirror == Anchor(TRUE, <<"https://other", "/", "z", ".pdf">>, <<"Mirror">>)

PageAnchors == {eDownload, eViewer, eScan, eHome, eMirror, aNamed}

\* download('/a.pdf')
onDownload == <<"download", "(", "'", "/", "a", ".pdf", "'", ")">>
\* open("/a.pdf?dl=1")
onQuery == <<"open", "(", "\"", "/", "a", ".pdf", "?", "dl", "\"", ")">>
\* get('/a.pdf?v', '/b.pdf')
onTwo == <<"get", "(", "'", "/", "a", ".pdf", "?", "v", "'", ",", "'", "/", "b", ".pdf", "'", ")">>
\* download('/c.PDF')
onUpper == <<"download", "(", "'", "/", "c", ".PDF", "'", ")">>
\* go('x', '/d.pdf')
onSecond == <<"go", "(", "'", "x", "'", ",", "'", "/", "d", ".pdf", "'", ")">>
\* download()
onBare == <<"download", "(", ")">>

PageButtons ==
    {Button(TRUE, o) : o \in {onDownload, onQuery, onTwo, onUpper, onSecond, onBare, <<>>}}
    \cup {Button(FALSE, onDownload)}

\* the pages of at most n anchors and m buttons
Pages(n, m) == {Page(a, b) : a \in SeqsUpTo(PageAnchors, n),
                             b \in SeqsUpTo(PageButtons, m)}

\* what the GET of an exhibit page can give: None for a RequestException
Responses(n, m) == {None} \cup {Some(p) : p \in Pages(n, m)}

InitResolve ==
    /\ RunIdle
    /\ input \in Responses(MaxAnchors, MaxButtons)
    /\ output = <<>>
    /\ phase = "ready"

CallGetPdfDownloadUrl ==
    /\ phase = "ready"
    /\ output' = get_pdf_download_url(input)
    /\ phase' = "returned"
    /\ UNCHANGED <<input, runVars>>

NextResolve == CallGetPdfDownloadUrl

SpecResolve == InitResolve /\ [][NextResolve]_vars

(* Properties of get_pdf_download_url *)

\* the reference or URL ends in the suffix, in any letter case
EndsInPdf(s) == s # <<>> /\ s[Len(s)] \in {".pdf", ".PDF"}

\* the positions of the anchors of the page whose reference ends in the suffix
PdfAnchorsAt(page) ==
    {k \in DOMAIN page.anchors : page.anchors[k].has_href /\ EndsInPdf(page.anchors[k].href)}

\* C7: the result is the first candidate, anchors first and buttons after,
\* whose URL ends in the suffix; so with an anchor whose reference ends in the
\* suffix the result is the first such anchor's absolute URL, whatever the
\* buttons are; it is absent when no candidate ends in the suffix and when
\* the fetch fails.
C7_FirstPdfCandidate ==
    phase = "returned" =>
        IF input = None THEN output = None
        ELSE LET page == input[1]
                 c == DownloadLinks(page)
                 E == {k \in DOMAIN c : EndsInPdf(c[k])}
             IN  /\ E = {} => output = None
                 /\ E # {} => output = Some(c[Min(E)])
                 /\ PdfAnchorsAt(page) # {} =>
                      output = Some(urljoin(base_url,
                                            page.anchors[Min(PdfAnchorsAt(page))].href))

\* an anchor is returned although an earlier anchor is a candidate by its
\* text and a button has a usable URL
C7_Witness ==
    /\ phase = "returned"
    /\ input # None
    /\ Len(input[1].anchors) = 2
    /\ input[1].anchors[1] = eViewer
    /\ PdfAnchorsAt(input[1]) = {2}
    /\ ButtonCandidates(input[1]) # <<>>
    /\ output = Some(urljoin(base_url, input[1].anchors[2].href))

\* the quoted substrings of an action string: what lies between a quote and
\* the next quote, from left to right
Quoted(onclick) ==
    LET Q == {k \in DOMAIN onclick : IsQuote(onclick[k])}
        starts == {i \in Q : \E q \in Q : q > i}
        seg(i) == SubSeq(onclick, i + 1, Min({q \in Q : q > i}) - 1)
        RECURSIVE upFrom(_)
        upFrom(i) == IF i > Len(onclick) THEN <<>>
                     ELSE (IF i \in starts THEN <<seg(i)>> ELSE <<>>) \o upFrom(i + 1)
    IN  upFrom(1)

\* the action string has the word download or the suffix in it, in any case
IsDownloadAction(onclick) ==
    \E k \in DOMAIN onclick : onclick[k] \in {"download", "Download", ".pdf", ".PDF"}

\* C10 as stated: a button or input whose action has 'download' or the
\* suffix in it contributes the first quoted substring that ends in .pdf;
\* so when no anchor qualifies and some such action has a quoted substring
\* ending in .pdf, the result is that substring as an absolute URL.
C10_FirstQuotedEndingInPdf ==
    (phase = "returned" /\ input # None) =>
        LET page == input[1]
            hits(b) == SelectSeq(Quoted(b.onclick), LAMBDA q : EndsWith(q, ".pdf"))
            B == {k \in DOMAIN page.buttons :
                    IsDownloadAction(page.buttons[k].onclick) /\ hits(page.buttons[k]) # <<>>}
        IN  (PdfAnchorsAt(page) = {} /\ B # {}) =>
               output = Some(urljoin(base_url, hits(page.buttons[Min(B)])[1]))

\* C10 amended: a button or input with type="button" contributes the first
\* quoted substring of its action that contains .pdf (lower case); when no
\* anchor's reference ends in the suffix, the result is the first of these
\* contributions, in element order, that ends in the suffix (any case), as
\* an absolute URL, and absent when there is none.
C10_FirstQuotedContainingPdf ==
    (phase = "returned" /\ input # None) =>
        LET page == input[1]
            hits(b) == SelectSeq(Quoted(b.onclick), LAMBDA q : \E k \in DOMAIN q : q[k] = ".pdf")
            B == {k \in DOMAIN page.buttons :
                    /\ page.buttons[k].type_button
                    /\ hits(page.buttons[k]) # <<>>
                    /\ EndsInPdf(hits(page.buttons[k])[1])}
        IN  PdfAnchorsAt(page) = {} =>
               output = IF B = {} THEN None
                        ELSE Some(urljoin(base_url, hits(page.buttons[Min(B)])[1]))

\* the second button gives the result: the first one's quoted substring has
\* .pdf in it but does not end in it
C10_Witness ==
    /\ phase = "returned"
    /\ input # None
    /\ PdfAnchorsAt(input[1]) = {}
    /\ Len(input[1].buttons) = 2
    /\ input[1].buttons[1] = Button(TRUE, onQuery)
    /\ output = Some(base_url \o <<"/", "d", ".pdf">>)

----------------------------------------------------------------------------
(* The filename download_exhibit writes to *)

\* lines 177-183: the descriptor's filename, or the display text made into
\* a name
ChosenFilename(exhibit_info) ==
    IF exhibit_info.filename = <<>> \/ ~EndsWith(Lower(exhibit_info.filename), ".pdf")
    THEN LET filename == Sanitize(exhibit_info.text)
         IN  IF ~EndsWith(Lower(filename), ".pdf")
             THEN filename \o <<".pdf">> ELSE filename
    ELSE exhibit_info.filename

\* lines 177-186 with the last substitution left out
UnsanitizedFilename(exhibit_info) == ChosenFilename(exhibit_info)

\* lines 177-186: the name of the file inside download_dir
FinalFilename(exhibit_info) == Sanitize(ChosenFilename(exhibit_info))

HrefAlphabet == {"/", "a", ":", "?", ".pdf", ".PDF"}

TextAlphabet == {"a", "*", ".pdf", ".PDF"}

\* d is the descriptor find_exhibit_links makes of one of them: in a table
\* row for a non-empty reference, in fallback mode for a reference ending in
\* .pdf
IsNameDescriptor(d, n, m) ==
    \E h \in SeqsUpTo(HrefAlphabet, n), t \in SeqsUpTo(TextAlphabet, m) :
       \/ h # <<>> /\ d = TableDescriptor(Anchor(TRUE, h, t), None)
       \/ IsPdfHref(h) /\ d = FallbackDescriptor(Anchor(TRUE, h, t))

InitName ==
    /\ RunIdle
    /\ IsNameDescriptor(input, MaxHrefLen, MaxTextLen)
    /\ output = <<>>
    /\ phase = "ready"

CallFinalFilename ==
    /\ phase = "ready"
    /\ output' = FinalFilename(input)
    /\ phase' = "returned"
    /\ UNCHANGED <<input, runVars>>

NextName == CallFinalFilename

SpecName == InitName /\ [][NextName]_vars

(* Properties of the filename *)

\* the characters a filename must not have
Unsafe == {"<", ">", ":", "\"", "/", "\\", "|", "?", "*"}

\* sanitising twice is sanitising once, and the result has no unsafe
\* character
SanitizeSettles(s) ==
    /\ Sanitize(Sanitize(s)) = Sanitize(s)
    /\ \A k \in DOMAIN s : Sanitize(s)[k] \notin Unsafe

\* C8 as stated: sanitising is idempotent, and the final filename has none
\* of < > : " / \ | ? * and ends with .pdf
C8_SafeNameEndsDotPdf ==
    phase = "returned" =>
        /\ SanitizeSettles(input.text) /\ SanitizeSettles(input.url)
        /\ \A k \in DOMAIN output : output[k] \notin Unsafe
        /\ EndsWith(output, ".pdf")

\* C8 amended: sanitising is idempotent, and the final filename has none of
\* < > : " / \ | ? * and ends with .pdf in some letter case (an extension
\* already there, such as .PDF, is kept as it is)
C8_SafeNameEndsPdfAnyCase ==
    phase = "returned" =>
        /\ SanitizeSettles(input.text) /\ SanitizeSettles(input.url)
        /\ \A k \in DOMAIN output : output[k] \notin Unsafe
        /\ EndsInPdf(output)

\* a name taken from the URL whose unsafe character was replaced, and which
\* keeps an upper-case extension
C8_Witness ==
    /\ phase = "returned"
    /\ input.filename = <<"a", ":", ".PDF">>
    /\ output = <<"a", "_", ".PDF">>

----------------------------------------------------------------------------
(* The run: main() calling download_all_exhibits().                        *)
(* pc: "start" -> "extract" -> "makedirs" -> "loop" -> "summary" ->        *)
(*     "return_true" | "return_false" -> "exited"                          *)

\* the data rows of the main pages of a run
RunRows == {"report|date", "manual|pending", "photos|short date"}

\* the main pages: one exhibits table, or two loose anchors and no table
MainPages(n) ==
    {<<<<"table", "Exhibit|Submitted available">> \o rs>> : rs \in SeqsUpTo(RunRows, n)}
    \cup {<<<<"a", "report">>, <<"a", "photos">>>>}

\* what the GET of the main page can give: None for a RequestException,
\* else the text of the response (<<>> is the empty text)
MainResponses(n) == {None, Some(<<>>)} \cup {Some(d) : d \in MainPages(n)}

\* what the GET of an exhibit page can give
ExhibitResponses ==
    {None, Some(Page(<<eHome>>, <<>>)), Some(Page(<<eViewer, eDownload>>, <<>>))}

\* what the GET of the file can give: a RequestException or the content
FileResponses == {"error", "content"}

\* how the filesystem behaves for one item: open() fails, write() fails
\* after open() made the file, os.utime() fails, or nothing fails (each
\* failure is an OSError, which `except IOError` catches)
IoOutcomes == {"open_fails", "write_fails", "utime_fails", "ok"}

\* exhibit_info.get('date') is truthy
HasDate(exhibit_info) == exhibit_info.date # None /\ exhibit_info.date[1] # <<>>

\* datetime.strptime(date, '%Y-%m-%d') does not raise ValueError
ParsesAsDate(date) ==
    Len(date) = 1 /\ date[1] \in {"2024-03-15", "2023-01-02", "2024-3-5"}

\* the file f in the directory with modification time mtime, replacing any
\* file of the same name
WriteFile(dir, f, mtime) ==
    {x \in dir : x.name # f} \cup {[name |-> f, mtime |-> mtime]}

\* download_exhibit(exhibit_info, download_dir): what it returns, the
\* requests it issues and the directory it leaves
download_exhibit(exhibit_info, dir, exhibit_resp, file_resp, io) ==
    LET pdf_url == get_pdf_download_url(exhibit_resp)
        filename == FinalFilename(exhibit_info)
        get_exhibit == [kind |-> "exhibit", url |-> exhibit_info.url]
    IN  IF pdf_url = None
        THEN [ok |-> FALSE, reqs |-> <<get_exhibit>>, dir |-> dir]
        ELSE LET reqs == <<get_exhibit, [kind |-> "file", url |-> pdf_url[1]]>>
             IN  IF file_resp = "error" \/ io = "open_fails"
                 THEN [ok |-> FALSE, reqs |-> reqs, dir |-> dir]
                 ELSE IF io = "write_fails"
                 THEN [ok |-> FALSE, reqs |-> reqs, dir |-> WriteFile(dir, filename, <<"now">>)]
                 ELSE IF HasDate(exhibit_info) /\ ParsesAsDate(exhibit_info.date[1])
                 THEN IF io = "utime_fails"
                      THEN [ok |-> FALSE, reqs |-> reqs,
                            dir |-> WriteFile(dir, filename, <<"now">>)]
                      ELSE [ok |-> TRUE, reqs |-> reqs,
                            dir |-> WriteFile(dir, filename, exhibit_info.date[1])]
                 ELSE [ok |-> TRUE, reqs |-> reqs,
                       dir |-> WriteFile(dir, filename, <<"now">>)]

\* line 226: `if not html_content`, true of None and of the empty text
PageMissing(html) == html = None \/ html[1] = <<>>

\* the emptiness test of line 231 left out
LinksNeverEmpty(links) == FALSE

\* line 231: `if not exhibit_links`
NoLinks(links) == links = <<>>

\* the loop of line 243 left at the first item that fails
StopsAtFailure(n, total, ok) == IF n < total /\ ok THEN "loop" ELSE "summary"

\* line 243: the for loop goes on while items are left
AfterItem(n, total, ok) == IF n < total THEN "loop" ELSE "summary"

\* the run counts as a success with no item saved
SucceededAlways(n) == n >= 0

\* line 257: return successful_downloads > 0
RunSucceeded(n) == n > 0

Init ==
    /\ pc = "start"
    /\ html_content = None
    /\ exhibit_links = <<>>
    /\ idx = 0
    /\ successful_downloads = 0
    /\ dir_created = FALSE
    /\ files = {}
    /\ requests = <<>>
    /\ results = <<>>
    /\ exit_code = -1
    /\ input = <<>>
    /\ output = <<>>
    /\ phase = "idle"

\* lines 225-227: get_fcc_page()
GetFccPage ==
    /\ pc = "start"
    /\ \E resp \in MainResponses(MaxLinks) :
         /\ html_content' = resp
         /\ pc' = IF PageMissing(resp) THEN "return_false" ELSE "extract"
    /\ requests' = Append(requests, [kind |-> "page", url |-> base_url \o <<"/", "ID">>])
    /\ UNCHANGED <<exhibit_links, idx, successful_downloads, dir_created, files,
                   results, exit_code, fnVars>>

\* lines 229-233: find_exhibit_links(html_content)
FindExhibitLinks ==
    /\ pc = "extract"
    /\ exhibit_links' = find_exhibit_links(html_content[1])
    /\ pc' = IF NoLinks(exhibit_links') THEN "return_false" ELSE "makedirs"
    /\ UNCHANGED <<html_content, idx, successful_downloads, dir_created, files,
                   requests, results, exit_code, fnVars>>

\* lines 238-241: os.makedirs(download_dir, exist_ok=True)
MakeDirs ==
    /\ pc = "makedirs"
    /\ dir_created' = TRUE
    /\ successful_downloads' = 0
    /\ pc' = AfterItem(0, Len(exhibit_links), TRUE)
    /\ UNCHANGED <<html_content, exhibit_links, idx, files, requests, results,
                   exit_code, fnVars>>

\* lines 243-251: one turn of the loop
DownloadExhibit ==
    /\ pc = "loop"
    /\ idx < Len(exhibit_links)
    /\ \E exhibit_resp \in ExhibitResponses, file_resp \in FileResponses, io \in IoOutcomes :
         LET r == download_exhibit(exhibit_links[idx + 1], files, exhibit_resp, file_resp, io)
         IN  /\ requests' = requests \o r.reqs
             /\ files' = r.dir
             /\ results' = Append(results, r.ok)
             /\ successful_downloads' = successful_downloads + (IF r.ok THEN 1 ELSE 0)
             /\ pc' = AfterItem(idx + 1, Len(exhibit_links), r.ok)
    /\ idx' = idx + 1
    /\ UNCHANGED <<html_content, exhibit_links, dir_created, exit_code, fnVars>>

\* lines 253-257: the summary and the return value
Summarize ==
    /\ pc = "summary"
    /\ pc' = IF RunSucceeded(successful_downloads) THEN "return_true" ELSE "return_false"
    /\ UNCHANGED <<html_content, exhibit_links, idx, successful_downloads, dir_created,
                   files, requests, results, exit_code, fnVars>>

\* lines 273-276: main() exits
MainExit ==
    /\ pc \in {"return_true", "return_false"}
    /\ exit_code' = IF pc = "return_false" THEN 1 ELSE 0
    /\ pc' = "exited"
    /\ UNCHANGED <<html_content, exhibit_links, idx, successful_downloads, dir_created,
                   files, requests, results, fnVars>>

Next ==
    \/ GetFccPage
    \/ FindExhibitLinks
    \/ MakeDirs
    \/ DownloadExhibit
    \/ Summarize
    \/ MainExit

Spec == Init /\ [][Next]_vars

\* the run is sequential and, once the links are extracted, no step waits
\* for ever: each request returns or times out (timeout=30, timeout=60) and
\* the pause between items is one second
FairSpec ==
    /\ Spec
    /\ WF_vars(MakeDirs) /\ WF_vars(DownloadExhibit)
    /\ WF_vars(Summarize) /\ WF_vars(MainExit)

----------------------------------------------------------------------------
(* Properties of the run *)

\* the requests of one kind, in the order issued
RequestsOf(kind) == SelectSeq(requests, LAMBDA r : r.kind = kind)

\* the number of items download_exhibit reported as saved
Succeeded == Cardinality({k \in DOMAIN results : results[k]})

\* C1: the exit code is zero exactly when at least one item succeeded; it
\* is not zero when the page fetch fails, when no descriptor is found and
\* when every item fails.
C1_ExitCodeZeroIffSomeSucceeded ==
    pc = "exited" =>
        /\ exit_code = 0 <=> Succeeded > 0
        /\ exit_code \in {0, 1}
        /\ html_content = None => exit_code # 0
        /\ exhibit_links = <<>> => exit_code # 0
        /\ (\A k \in DOMAIN results : ~results[k]) => exit_code # 0

\* a run that ends with exit code 0 although an item failed
C1_Witness ==
    /\ pc = "exited"
    /\ exit_code = 0
    /\ \E k \in DOMAIN results : ~results[k]

\* C2: when the page fetch fails or no descriptor is found, the run fails
\* with no directory made and no exhibit or file request issued; the
\* directory is made only after a non-empty extraction, and before any file
\* is written.
C2_NoDirectoryWithoutLinks ==
    /\ (pc \notin {"start", "extract"} /\ (html_content = None \/ exhibit_links = <<>>)) =>
          /\ pc \in {"return_false", "exited"}
          /\ pc = "exited" => exit_code = 1
          /\ ~dir_created
          /\ files = {}
          /\ Len(requests) = 1 /\ requests[1].kind = "page"
    /\ dir_created => (html_content # None /\ exhibit_links # <<>>)
    /\ (files # {} \/ RequestsOf("exhibit") # <<>> \/ RequestsOf("file") # <<>>) => dir_created

\* a run that failed because a fetched page has no link in it
C2_Witness ==
    /\ pc = "exited"
    /\ html_content # None
    /\ html_content[1] # <<>>
    /\ exhibit_links = <<>>
    /\ exit_code = 1

\* the part of C3 that holds in every state: items are taken one by one in
\* extraction order, each exactly once, a failed one is counted as failed,
\* the loop ends only when all are done, and the tally is the number saved
C3_EveryItemOnce ==
    /\ Len(results) = idx
    /\ idx <= Len(exhibit_links)
    /\ Len(RequestsOf("exhibit")) = idx
    /\ \A k \in 1..idx : RequestsOf("exhibit")[k].url = exhibit_links[k].url
    /\ successful_downloads = Succeeded
    /\ pc = "loop" => idx < Len(exhibit_links)
    /\ (pc \in {"summary", "return_true", "return_false", "exited"} /\ dir_created) =>
          idx = Len(exhibit_links)

\* C3: after a non-empty extraction no failure of an item ends the run:
\* every descriptor is processed once, in order, failures are counted and
\* the next item is tried, and the run reaches the summary with the tally
\* of all items.
C3_NoItemFailureAbortsRun ==
    /\ []C3_EveryItemOnce
    /\ (pc = "makedirs") ~> (pc = "summary" /\ Len(results) = Len(exhibit_links))

\* the summary of two items of which the first failed to resolve and the
\* second was saved
C3_Witness ==
    /\ pc = "summary"
    /\ results = <<FALSE, TRUE>>
    /\ Len(RequestsOf("file")) = 1
    /\ successful_downloads = 1

\* C4: after a run, the directory holds as many files as items succeeded
C4_OneFilePerSucceededItem ==
    pc = "exited" => Cardinality(files) = successful_downloads

====
